---- MODULE Spec2Model ----
(***************************************************************************)
(* mqttui: the connection worker, the event bridge between a worker and    *)
(* the foreground loop, the tick-driven poll loop, and the topic tree the  *)
(* poll loop feeds.                                                        *)
(*                                                                         *)
(* Text is modelled as a sequence of one-character strings, so that        *)
(* splitting a topic on '/' and joining a path with '/' are computed.      *)
(***************************************************************************)
EXTENDS Integers, Sequences, FiniteSets, TLC

(***************************************************************************)
(* Sizes.  The four program constants below are scaled down from the       *)
(* values in the source (1000, 50, 100, 10) so that the cases they govern  *)
(* are reached; every formula is stated in terms of the names.             *)
(***************************************************************************)
\* capacity of the event channel: mpsc::sync_channel(1000)
EVENT_CHANNEL_CAPACITY == 3
\* const MAX_MESSAGES_PER_TICK: usize = 50
MAX_MESSAGES_PER_TICK == 2
\* "Keep last 100 messages per topic"
MAX_NODE_MESSAGES == 2
\* "Rebuild tree caches every 10 ticks"
REBUILD_EVERY == 2
\* number of workers ever spawned (connect commands issued)
MaxWorkers == 2
\* number of events, in all, that the environment injects: notifications of an
\* established session, failed connection attempts, errors of an event stream,
\* panics of a worker
MaxInjected == 2
\* number of messages inserted into the tree of the tree specification since
\* it was created or last cleared
MaxInserts == 3
\* number of publish commands issued to one worker
MaxPublishes == 2

ConnIds == {"c1", "c2"}
Workers == 1..MaxWorkers
\* Option::None for a channel handle
None == 0

(***************************************************************************)
(* Text                                                                    *)
(***************************************************************************)
Slash == "/"
EmptyText == << >>
LOCALHOST == <<"l", "o", "c", "a", "l", "h", "o", "s", "t">>
LOOPBACK_ADDR == <<"1", "2", "7", ".", "0", ".", "0", ".", "1">>
HostUpper == <<"L", "o", "c", "a", "l", "H", "o", "s", "t">>
HostOther == <<"b", "r", "o", "k", "e", "r">>
ConfigHosts == {HostUpper, HostOther}
\* the catch-all topic filter
Wildcard == <<"#">>

\* u8::to_ascii_lowercase on the letters the hosts use
ToAsciiLower(c) ==
    CASE c = "L" -> "l"
      [] c = "H" -> "h"
      [] OTHER -> c

\* str::eq_ignore_ascii_case
EqIgnoreAsciiCase(a, b) ==
    /\ Len(a) = Len(b)
    /\ \A i \in 1..Len(a) : ToAsciiLower(a[i]) = ToAsciiLower(b[i])

\* a choice of candidates that compares the host with its case
HostsToTryCaseSensitive(host) ==
    IF host = LOCALHOST
    THEN <<LOCALHOST, LOOPBACK_ADDR>>
    ELSE <<host>>

\* hosts_to_try
HostsToTry(host) ==
    IF EqIgnoreAsciiCase(host, LOCALHOST)
    THEN <<LOCALHOST, LOOPBACK_ADDR>>
    ELSE <<host>>

(***************************************************************************)
(* Messages, events, commands, statuses                                    *)
(***************************************************************************)
TopicA == <<"a">>
TopicAB == <<"a", "/", "b">>
TopicB == <<"b">>
TopicABA == <<"a", "/", "b", "/", "a">>
TopicSlashA == <<"/", "a">>
TopicASlashSlashB == <<"a", "/", "/", "b">>
\* the topics inserted into the tree of the tree specification
Topics == {TopicA, TopicAB, TopicB, TopicABA, TopicSlashA, TopicASlashSlashB}
\* a topic nothing is published on
TopicNowhere == <<"b", "/", "b">>
\* the application messages the broker delivers (rumqttc Publish packets)
Publishes ==
    { [topic |-> TopicA, payload |-> 1, qos |-> 0, retain |-> FALSE],
      [topic |-> TopicAB, payload |-> 2, qos |-> 1, retain |-> TRUE] }

NoMsg == [topic |-> EmptyText, payload |-> 0, qos |-> 0, retain |-> FALSE]

\* MqttMessage::new (the capture timestamp is not modelled)
NewMqttMessage(topic, payload, qos, retain) ==
    [topic |-> topic, payload |-> payload, qos |-> qos, retain |-> retain]

\* enum MqttEvent
EvConnected == [kind |-> "Connected", msg |-> NoMsg, text |-> EmptyText]
EvDisconnected == [kind |-> "Disconnected", msg |-> NoMsg, text |-> EmptyText]
EvMessage(m) == [kind |-> "Message", msg |-> m, text |-> EmptyText]
EvError(t) == [kind |-> "Error", msg |-> NoMsg, text |-> t]

\* enum ConnectionStatus
StDisconnected == [kind |-> "Disconnected", text |-> EmptyText]
StConnecting == [kind |-> "Connecting", text |-> EmptyText]
StConnected == [kind |-> "Connected", text |-> EmptyText]
StError(t) == [kind |-> "Error", text |-> t]

\* descriptions of failures (e.to_string())
ErrRefused == <<"r", "e", "f", "u", "s", "e", "d">>
ErrTimeout == <<"t", "i", "m", "e", "o", "u", "t">>
ConnectErrors == {ErrRefused}
ErrClosed == <<"C", "o", "n", "n", "e", "c", "t", "i", "o", "n", " ", "c", "l", "o", "s", "e", "d">>
ErrFailed == <<"F", "a", "i", "l", "e", "d", " ", "t", "o", " ", "c", "o", "n", "n", "e", "c", "t">>
StreamErrors == {ErrTimeout}
PanicReasons == {<<"b", "o", "o", "m">>}
CrashPrefix == <<"W", "o", "r", "k", "e", "r", " ", "c", "r", "a", "s", "h", "e", "d", ":", " ">>
\* format!("Worker crashed: {}", msg)
CrashText(reason) == CrashPrefix \o reason

\* enum MqttCommand (MqttCommand::Connect is never sent)
CmdDisconnect ==
    [kind |-> "Disconnect", topic |-> EmptyText, payload |-> 0, qos |-> 0, retain |-> FALSE]
CmdPublish(topic, payload, qos, retain) ==
    [kind |-> "Publish", topic |-> topic, payload |-> payload, qos |-> qos, retain |-> retain]

\* struct Subscription
Subscription(topic, qos) == [topic |-> topic, qos |-> qos]
\* Subscription::default(), and the list ConnectionConfig::default() holds
DefaultSubscriptions == <<Subscription(Wildcard, 0)>>
\* the subscription lists of the stored configurations
SubscriptionLists ==
    { << >>,
      DefaultSubscriptions,
      <<Subscription(TopicA, 1)>>,
      <<Subscription(TopicAB, 2), Subscription(TopicA, 0)>>,
      <<Subscription(TopicB, 3), Subscription(Wildcard, 1)>> }

\* "match qos { 0 => AtMostOnce, 1 => AtLeastOnce, _ => ExactlyOnce }"
QosOf(qos) ==
    CASE qos = 0 -> "AtMostOnce"
      [] qos = 1 -> "AtLeastOnce"
      [] OTHER -> "ExactlyOnce"

\* the operations the relay asks of the protocol client
ReqSubscribe(topic, qos) ==
    [op |-> "subscribe", topic |-> topic, payload |-> 0, qos |-> qos, retain |-> FALSE]
ReqPublish(topic, qos, retain, payload) ==
    [op |-> "publish", topic |-> topic, payload |-> payload, qos |-> qos, retain |-> retain]
ReqDisconnect ==
    [op |-> "disconnect", topic |-> EmptyText, payload |-> 0, qos |-> "AtMostOnce",
     retain |-> FALSE]

\* a relay that adds the catch-all subscription to every list
RECURSIVE SubscribeRequestsWithCatchAll(_)
SubscribeRequestsWithCatchAll(subscriptions) ==
    IF subscriptions = << >>
    THEN <<ReqSubscribe(Wildcard, "AtMostOnce")>>
    ELSE <<ReqSubscribe(Head(subscriptions).topic, QosOf(Head(subscriptions).qos))>>
             \o SubscribeRequestsWithCatchAll(Tail(subscriptions))

\* "for sub in &subscriptions { client.subscribe(..) }", then the catch-all
\* subscription when the list is empty
RECURSIVE SubscribeEach(_)
SubscribeEach(subscriptions) ==
    IF subscriptions = << >> THEN << >>
    ELSE <<ReqSubscribe(Head(subscriptions).topic, QosOf(Head(subscriptions).qos))>>
             \o SubscribeEach(Tail(subscriptions))

SubscribeRequests(subscriptions) ==
    SubscribeEach(subscriptions)
        \o (IF subscriptions = << >>
            THEN <<ReqSubscribe(Wildcard, "AtMostOnce")>>
            ELSE << >>)

\* a relay that goes on after a Disconnect command
TranslateCommandsOn(cmd) ==
    CASE cmd.kind = "Disconnect" -> [requests |-> <<ReqDisconnect>>, stop |-> FALSE]
      [] cmd.kind = "Publish" ->
            [requests |-> <<ReqPublish(cmd.topic, QosOf(cmd.qos), cmd.retain, cmd.payload)>>,
             stop |-> FALSE]
      [] OTHER -> [requests |-> << >>, stop |-> FALSE]

\* the body of "for cmd in cmd_rx": the requests a command is translated
\* into, and whether the loop breaks
TranslateCommand(cmd) ==
    CASE cmd.kind = "Disconnect" -> [requests |-> <<ReqDisconnect>>, stop |-> TRUE]
      [] cmd.kind = "Publish" ->
            [requests |-> <<ReqPublish(cmd.topic, QosOf(cmd.qos), cmd.retain, cmd.payload)>>,
             stop |-> FALSE]
      [] OTHER -> [requests |-> << >>, stop |-> FALSE]

(***************************************************************************)
(* Topic tree                                                              *)
(***************************************************************************)
\* str::split('/'): the segments of a text, empty segments kept
RECURSIVE SplitFrom(_, _, _)
SplitFrom(s, i, cur) ==
    IF i > Len(s) THEN <<cur>>
    ELSE IF s[i] = Slash THEN <<cur>> \o SplitFrom(s, i + 1, EmptyText)
    ELSE SplitFrom(s, i + 1, Append(cur, s[i]))

Split(s) == SplitFrom(s, 1, EmptyText)

\* TopicNode::new
NewTopicNode(name, full_path) ==
    [name |-> name, full_path |-> full_path, children |-> << >>,
     messages |-> << >>, message_count |-> 0, expanded |-> FALSE]

\* a push that, on overflow, drops the message just pushed
PushBoundedDropNewest(messages, message) ==
    LET pushed == Append(messages, message)
    IN  IF Len(pushed) > MAX_NODE_MESSAGES
        THEN SubSeq(pushed, 1, MAX_NODE_MESSAGES)
        ELSE pushed

\* the push and eviction of TopicNode::insert_message
PushBounded(messages, message) ==
    LET pushed == Append(messages, message)
    IN  IF Len(pushed) > MAX_NODE_MESSAGES THEN Tail(pushed) ELSE pushed

\* the path a new child gets in TopicNode::insert_message
ChildPath(full_path, part) ==
    IF full_path = EmptyText THEN part ELSE full_path \o <<Slash>> \o part

\* an insert_message whose terminal node counts what its buffer holds
RECURSIVE InsertMessageCountingBuffer(_, _, _)
InsertMessageCountingBuffer(node, topic_parts, message) ==
    IF topic_parts = << >>
    THEN [node EXCEPT !.message_count = Len(PushBounded(node.messages, message)),
                      !.messages = PushBounded(@, message)]
    ELSE LET part == Head(topic_parts)
             child == IF part \in DOMAIN node.children
                      THEN node.children[part]
                      ELSE NewTopicNode(part, ChildPath(node.full_path, part))
         IN  [node EXCEPT !.message_count = @ + 1,
                          !.children =
                 [k \in DOMAIN node.children \cup {part} |->
                     IF k = part
                     THEN InsertMessageCountingBuffer(child, Tail(topic_parts), message)
                     ELSE node.children[k]]]

\* an insert_message that counts the message on the terminal node only
RECURSIVE InsertMessageCountingTerminal(_, _, _)
InsertMessageCountingTerminal(node, topic_parts, message) ==
    IF topic_parts = << >>
    THEN [node EXCEPT !.message_count = @ + 1,
                      !.messages = PushBounded(@, message)]
    ELSE LET part == Head(topic_parts)
             child == IF part \in DOMAIN node.children
                      THEN node.children[part]
                      ELSE NewTopicNode(part, ChildPath(node.full_path, part))
         IN  [node EXCEPT !.children =
                 [k \in DOMAIN node.children \cup {part} |->
                     IF k = part
                     THEN InsertMessageCountingTerminal(child, Tail(topic_parts), message)
                     ELSE node.children[k]]]

\* TopicNode::insert_message
RECURSIVE InsertMessage(_, _, _)
InsertMessage(node, topic_parts, message) ==
    LET counted == [node EXCEPT !.message_count = @ + 1]
    IN  IF topic_parts = << >>
        THEN [counted EXCEPT !.messages = PushBounded(@, message)]
        ELSE LET part == Head(topic_parts)
                 remaining == Tail(topic_parts)
                 child_path == ChildPath(node.full_path, part)
                 child == IF part \in DOMAIN node.children
                          THEN node.children[part]
                          ELSE NewTopicNode(part, child_path)
                 keys == DOMAIN node.children \cup {part}
             IN  [counted EXCEPT !.children =
                     [k \in keys |->
                         IF k = part
                         THEN InsertMessage(child, remaining, message)
                         ELSE node.children[k]]]

\* TopicTree::count_topics
RECURSIVE SumOver(_, _)
RECURSIVE CountTopics(_)
SumOver(children, keys) ==
    IF keys = {} THEN 0
    ELSE LET k == CHOOSE x \in keys : TRUE
         IN  CountTopics(children[k]) + SumOver(children, keys \ {k})

CountTopics(node) ==
    (IF node.messages = << >> THEN 0 ELSE 1)
        + SumOver(node.children, DOMAIN node.children)

\* TopicTree::new
NewTopicTree ==
    [root |-> NewTopicNode(EmptyText, EmptyText),
     total_messages |-> 0, total_topics |-> 0]

\* an insert that counts topics incrementally, one per insert
TreeInsertCountingInserts(tree, message) ==
    [root |-> InsertMessage(tree.root, Split(message.topic), message),
     total_messages |-> tree.total_messages + 1,
     total_topics |-> tree.total_topics + 1]

\* TopicTree::insert
TreeInsert(tree, message) ==
    LET parts == Split(message.topic)
        root == InsertMessage(tree.root, parts, message)
    IN  [root |-> root,
         total_messages |-> tree.total_messages + 1,
         total_topics |-> CountTopics(root)]

\* TopicTree::get_node
RECURSIVE GetNodeRecursive(_, _)
GetNodeRecursive(node, parts) ==
    IF parts = << >> THEN <<node>>
    ELSE IF Head(parts) \in DOMAIN node.children
         THEN GetNodeRecursive(node.children[Head(parts)], Tail(parts))
         ELSE << >>

\* Option<&TopicNode>: << >> is None, <<n>> is Some(n)
GetNode(tree, topic) == GetNodeRecursive(tree.root, Split(topic))

\* a last_message that returns the oldest message of the buffer
LastMessageOldest(node) ==
    IF node.messages = << >> THEN << >> ELSE <<node.messages[1]>>

\* TopicNode::last_message
LastMessage(node) ==
    IF node.messages = << >> THEN << >> ELSE <<node.messages[Len(node.messages)]>>

\* TopicTree::get_latest_message
GetLatestMessage(tree, topic) ==
    LET found == GetNode(tree, topic)
    IN  IF found = << >> THEN << >> ELSE LastMessage(found[1])

\* an assignment that sets the flag of every node on the way as well
RECURSIVE SetExpandedAlongPath(_, _, _)
SetExpandedAlongPath(node, parts, flag) ==
    IF parts = << >> THEN [node EXCEPT !.expanded = flag]
    ELSE IF Head(parts) \in DOMAIN node.children
         THEN [node EXCEPT !.expanded = flag,
                           !.children[Head(parts)] =
                               SetExpandedAlongPath(@, Tail(parts), flag)]
         ELSE node

\* get_node_recursive_mut, and the assignment to the flag of the node found
RECURSIVE SetExpanded(_, _, _)
SetExpanded(node, parts, flag) ==
    IF parts = << >> THEN [node EXCEPT !.expanded = flag]
    ELSE IF Head(parts) \in DOMAIN node.children
         THEN [node EXCEPT !.children[Head(parts)] =
                  SetExpanded(@, Tail(parts), flag)]
         ELSE node

\* TopicTree::expand
Expand(tree, topic) ==
    [tree EXCEPT !.root = SetExpanded(@, Split(topic), TRUE)]

\* TopicTree::collapse
Collapse(tree, topic) ==
    [tree EXCEPT !.root = SetExpanded(@, Split(topic), FALSE)]

\* a clear that resets the counters and keeps the nodes
ClearCountersOnly(tree) ==
    [tree EXCEPT !.total_messages = 0, !.total_topics = 0]

\* TopicTree::clear
Clear(tree) ==
    [tree EXCEPT !.root = NewTopicNode(EmptyText, EmptyText),
                 !.total_messages = 0, !.total_topics = 0]

(***************************************************************************)
(* The visible-node list (collect_tree_nodes_static)                       *)
(***************************************************************************)
\* byte values of the characters topics are made of
CharCode(c) ==
    CASE c = "/" -> 47
      [] c = "a" -> 97
      [] c = "b" -> 98
      [] OTHER -> 0

\* Ord for String: bytewise lexicographic, a proper prefix first
RECURSIVE TextLess(_, _)
TextLess(a, b) ==
    IF b = << >> THEN FALSE
    ELSE IF a = << >> THEN TRUE
    ELSE IF CharCode(Head(a)) # CharCode(Head(b))
         THEN CharCode(Head(a)) < CharCode(Head(b))
         ELSE TextLess(Tail(a), Tail(b))

\* a sort in descending order
RECURSIVE SortedKeysDescending(_)
SortedKeysDescending(keys) ==
    IF keys = {} THEN << >>
    ELSE LET most == CHOOSE k \in keys : \A o \in keys \ {k} : TextLess(o, k)
         IN  <<most>> \o SortedKeysDescending(keys \ {most})

\* children.sort_by(|a, b| a.0.cmp(b.0))
RECURSIVE SortedKeys(_)
SortedKeys(keys) ==
    IF keys = {} THEN << >>
    ELSE LET least == CHOOSE k \in keys : \A o \in keys \ {k} : TextLess(k, o)
         IN  <<least>> \o SortedKeys(keys \ {least})

\* struct TreeNodeInfo
TreeNodeInfo(name, child, depth) ==
    [name |-> name, full_path |-> child.full_path, depth |-> depth,
     has_children |-> DOMAIN child.children # {},
     has_messages |-> child.messages # << >>,
     message_count |-> child.message_count,
     is_expanded |-> child.expanded]

\* collect_tree_nodes_static
RECURSIVE CollectTreeNodes(_, _)
RECURSIVE CollectFrom(_, _, _)
CollectFrom(node, names, depth) ==
    IF names = << >> THEN << >>
    ELSE LET name == Head(names)
             child == node.children[name]
             below == IF child.expanded /\ DOMAIN child.children # {}
                      THEN CollectTreeNodes(child, depth + 1)
                      ELSE << >>
         IN  <<TreeNodeInfo(name, child, depth)>> \o below
                 \o CollectFrom(node, Tail(names), depth)

CollectTreeNodes(node, depth) ==
    CollectFrom(node, SortedKeys(DOMAIN node.children), depth)

(***************************************************************************)
(* State                                                                   *)
(***************************************************************************)
VARIABLES
    config,             \* AppConfig.connections: id -> [host]
    connections,        \* MqttUi.connections: id -> ConnectionState
    topic_trees,        \* MqttUi.topic_trees: id -> TopicTree
    tree_cache_dirty,   \* MqttUi.tree_cache_dirty: id -> bool
    cached_tree_nodes,  \* MqttUi.cached_tree_nodes: id -> Vec<TreeNodeInfo>
    tick_counter,       \* MqttUi.tick_counter, kept modulo REBUILD_EVERY
    fg,                 \* position of the foreground loop inside a tick
    spawned,            \* number of workers spawned so far
    worker,             \* per worker: the locals of run_mqtt_worker
    relay,              \* per worker: position of the command relay thread
    evq,                \* per worker: contents of its event channel
    cmdq,               \* per worker: contents of its command channel
    injected,           \* events the environment has injected so far
    emitted,            \* history: events handed to try_send on each live channel
    applied,            \* history: events the poll loop took from each live channel
    sent,               \* history: per worker, number of try_send calls and the last event
    attempts,           \* history: each worker's connection attempts
    tickApplied,        \* history: events taken from the current connection in this tick
    staleTicks,         \* history: id -> ticks completed since its cache was marked dirty
    requests,           \* per worker: the operations its relay asked of the client
    open_tabs,          \* MqttUi.open_tabs
    active_tab,         \* MqttUi.active_tab (NoId: None)
    selected_topics,    \* MqttUi.selected_topics: id -> topic
    selected_messages,  \* MqttUi.selected_messages: id -> MqttMessage
    tree,               \* a TopicTree of its own (the tree specification)
    inserted            \* history: the messages inserted into tree since created or cleared

vars == <<config, connections, topic_trees, tree_cache_dirty, cached_tree_nodes,
          tick_counter, fg, spawned, worker, relay, evq, cmdq, injected,
          emitted, applied, sent, attempts, tickApplied, staleTicks, requests,
          open_tabs, active_tab, selected_topics, selected_messages, tree, inserted>>

\* the variables of the tree specification, and the others
treeVars == <<tree, inserted>>
appVars == <<config, connections, topic_trees, tree_cache_dirty, cached_tree_nodes,
             tick_counter, fg, spawned, worker, relay, evq, cmdq, injected,
             emitted, applied, sent, attempts, tickApplied, staleTicks, requests,
             open_tabs, active_tab, selected_topics, selected_messages>>

\* tabs and selections
uiVars == <<open_tabs, active_tab, selected_topics, selected_messages>>
fgVars == <<connections, topic_trees, tree_cache_dirty, cached_tree_nodes,
            tick_counter, fg, tickApplied, applied, staleTicks, uiVars, treeVars>>
wkVars == <<spawned, worker, relay, cmdq, injected, emitted, sent, attempts, requests>>

NoId == "-"
IdleFg == [pc |-> "idle", todo |-> {}, cur |-> NoId, msg_count |-> 0]

\* a worker that has not been spawned
NoWorker ==
    [conn |-> NoId, host |-> EmptyText, subscriptions |-> << >>, pc |-> "none",
     host_idx |-> 1, last_error |-> << >>, first_event |-> << >>, panic |-> << >>]

\* a worker whose thread has ended: its locals are gone (the relay thread
\* holds its own clone of the subscriptions)
Ended(w, pc) ==
    [NoWorker EXCEPT !.conn = worker[w].conn, !.host = worker[w].host,
                     !.subscriptions = worker[w].subscriptions, !.pc = pc]

NoSent == [count |-> 0, last |-> << >>]

\* MqttUi::new with the stored configuration holding these connections,
\* their hosts and subscription lists among these, and these tabs open last
InitConfigured(ids, hosts, lists, tabs) ==
    /\ config \in [ids -> [host : hosts, subscriptions : lists]]
    /\ open_tabs \in tabs
    /\ active_tab = NoId
    /\ selected_topics = << >>
    /\ selected_messages = << >>
    /\ requests = [w \in Workers |-> << >>]
    /\ staleTicks = << >>
    /\ connections = << >>
    /\ topic_trees = << >>
    /\ tree_cache_dirty = << >>
    /\ cached_tree_nodes = << >>
    /\ tick_counter = 0
    /\ fg = IdleFg
    /\ spawned = 0
    /\ worker = [w \in Workers |-> NoWorker]
    /\ relay = [w \in Workers |-> "none"]
    /\ evq = [w \in Workers |-> << >>]
    /\ cmdq = [w \in Workers |-> << >>]
    /\ injected = 0
    /\ emitted = [w \in Workers |-> << >>]
    /\ sent = [w \in Workers |-> NoSent]
    /\ applied = [w \in Workers |-> << >>]
    /\ attempts = [w \in Workers |-> << >>]
    /\ tickApplied = << >>
    /\ tree = NewTopicTree
    /\ inserted = << >>

InitWith(ids) == InitConfigured(ids, ConfigHosts, {DefaultSubscriptions}, {<< >>})

Init == InitWith({"c1"})

\* a map with one entry inserted or replaced (HashMap::insert)
MapInsert(m, k, v) == [x \in DOMAIN m \cup {k} |-> IF x = k THEN v ELSE m[x]]
\* HashMap::remove
MapRemove(m, k) == [x \in DOMAIN m \ {k} |-> m[x]]

(***************************************************************************)
(* The event channel and the command channel                               *)
(***************************************************************************)
\* the foreground still holds the receiving end of worker w's event channel
ReceiverAlive(w) ==
    /\ worker[w].conn \in DOMAIN connections
    /\ connections[worker[w].conn].event_rx = w

\* the foreground still holds the sending end of worker w's command channel
SenderAlive(w) ==
    /\ worker[w].conn \in DOMAIN connections
    /\ connections[worker[w].conn].command_tx = w

\* cmd_rx is owned by run_mqtt_worker until the relay is spawned, then by the
\* relay thread; it is dropped when its owner ends
CmdReceiverAlive(w) ==
    \/ relay[w] \in {"settle", "run"}
    \/ relay[w] = "none" /\ worker[w].pc \in {"probe", "fail", "first"}

\* a try_send that ignores the capacity of the channel
TrySendUnbounded(queue, alive, event) ==
    IF alive THEN Append(queue, event) ELSE queue

\* SyncSender::try_send on a channel of EVENT_CHANNEL_CAPACITY slots: the
\* queue after the call (unchanged when the channel is full or closed)
TrySend(queue, alive, event) ==
    IF alive /\ Len(queue) < EVENT_CHANNEL_CAPACITY
    THEN Append(queue, event)
    ELSE queue

\* Sender::send on the unbounded command channel
CmdSend(queue, alive, cmd) ==
    IF alive THEN Append(queue, cmd) ELSE queue

\* worker w (or its hosting thread) calls evt_tx.try_send for each of events
Emit(w, events) ==
    /\ evq' = [evq EXCEPT ![w] =
                  IF events = << >> THEN @
                  ELSE TrySend(@, ReceiverAlive(w), events[1])]
    /\ emitted' = [emitted EXCEPT ![w] = IF ReceiverAlive(w) THEN @ \o events ELSE @]
    /\ sent' = [sent EXCEPT ![w] =
                   IF events = << >> THEN @
                   ELSE [count |-> @.count + 1, last |-> events]]

(***************************************************************************)
(* Threads that are over                                                   *)
(***************************************************************************)
\* both threads of worker w have returned and the foreground holds neither
\* end of its channels: nothing of the worker is left in the program.  Its
\* record is dropped before anything else happens (every other action waits
\* for Settled), so that what is over does not tell states apart
Over(w) ==
    /\ worker[w].pc \in {"done", "exited"}
    /\ relay[w] \in {"none", "done"}
    /\ ~ReceiverAlive(w)
    /\ ~SenderAlive(w)

Gone == [NoWorker EXCEPT !.pc = "gone"]

\* the record of a worker that is over is dropped, and its history with it
Reap(w) ==
    /\ Over(w)
    /\ worker' = [worker EXCEPT ![w] = Gone]
    /\ relay' = [relay EXCEPT ![w] = "none"]
    /\ cmdq' = [cmdq EXCEPT ![w] = << >>]
    /\ sent' = [sent EXCEPT ![w] = NoSent]
    /\ attempts' = [attempts EXCEPT ![w] = << >>]
    /\ requests' = [requests EXCEPT ![w] = << >>]
    /\ UNCHANGED <<config, fgVars, spawned, evq, injected, emitted>>

\* no worker is waiting to be dropped
Settled == \A w \in Workers : ~Over(w)

(***************************************************************************)
(* The connection worker (run_mqtt_worker) and its hosting thread          *)
(***************************************************************************)
\* notifications of the broker event stream (rumqttc::Event)
NotifConnAck == [type |-> "ConnAck", publish |-> NoMsg]
NotifPublish(p) == [type |-> "Publish", publish |-> p]
NotifDisconnect == [type |-> "Disconnect", publish |-> NoMsg]
NotifOther == [type |-> "Other", publish |-> NoMsg]

\* the first notification of a session that was established: the event loop
\* of the protocol client yields the broker's ConnAck
ProbeNotifs == {NotifConnAck}
\* the notifications of an established session
StreamNotifs ==
    {NotifPublish(p) : p \in Publishes} \cup {NotifDisconnect, NotifOther}

\* process_event: the events it hands to try_send
ProcessEventSends(event) ==
    CASE event.type = "ConnAck" -> <<EvConnected>>
      [] event.type = "Publish" ->
            <<EvMessage(NewMqttMessage(event.publish.topic, event.publish.payload,
                                       event.publish.qos, event.publish.retain))>>
      [] event.type = "Disconnect" -> <<EvDisconnected>>
      [] OTHER -> << >>

\* process_event: its result (false: stop processing)
ProcessEventContinues(event) == event.type # "Disconnect"

\* a failure report that forgets the errors of the attempts
ConnectFailureForgetful(last_error) == EvError(ErrFailed)

\* the event sent when every candidate host failed
ConnectFailure(last_error) ==
    EvError(IF last_error = << >> THEN ErrFailed ELSE last_error[1])

\* one pass of the loop over hosts_to_try: connection.iter().next()
Probe(w) ==
    /\ Settled
    /\ worker[w].pc = "probe"
    /\ LET hosts == HostsToTry(worker[w].host)
           host == hosts[worker[w].host_idx]
           last == worker[w].host_idx = Len(hosts)
           after == IF last THEN "fail" ELSE "probe"
       IN  \/ \E event \in ProbeNotifs :
                /\ worker' = [worker EXCEPT ![w].pc = "first",
                                            ![w].first_event = <<event>>]
                /\ UNCHANGED injected
                /\ attempts' = [attempts EXCEPT ![w] =
                                   Append(@, [host |-> host, ok |-> TRUE, error |-> EmptyText])]
           \/ \E e \in ConnectErrors :
                /\ injected < MaxInjected
                /\ injected' = injected + 1
                /\ worker' = [worker EXCEPT ![w].pc = after,
                                            ![w].host_idx = @ + 1,
                                            ![w].last_error = <<e>>]
                /\ attempts' = [attempts EXCEPT ![w] =
                                   Append(@, [host |-> host, ok |-> FALSE, error |-> e])]
           \/ /\ injected < MaxInjected
              /\ injected' = injected + 1
              /\ worker' = [worker EXCEPT ![w].pc = after,
                                          ![w].host_idx = @ + 1,
                                          ![w].last_error = <<ErrClosed>>]
              /\ attempts' = [attempts EXCEPT ![w] =
                                 Append(@, [host |-> host, ok |-> FALSE, error |-> ErrClosed])]
    /\ UNCHANGED <<config, fgVars, requests, spawned, relay, evq, cmdq, emitted, sent>>

\* every candidate failed: one Error, then return
ProbeFailed(w) ==
    /\ Settled
    /\ worker[w].pc = "fail"
    /\ Emit(w, <<ConnectFailure(worker[w].last_error)>>)
    /\ worker' = [worker EXCEPT ![w] = Ended(w, "done")]
    /\ UNCHANGED <<config, fgVars, requests, spawned, relay, cmdq, injected, attempts>>

\* a session was established: spawn the command relay, then process the
\* notification the probe consumed
First(w) ==
    /\ Settled
    /\ worker[w].pc = "first"
    /\ LET event == worker[w].first_event[1]
       IN  /\ Emit(w, ProcessEventSends(event))
           /\ worker' = [worker EXCEPT ![w] =
                            IF ProcessEventContinues(event)
                            THEN [@ EXCEPT !.pc = "loop", !.first_event = << >>]
                            ELSE Ended(w, "done")]
    /\ relay' = [relay EXCEPT ![w] = "settle"]
    /\ UNCHANGED <<config, fgVars, requests, spawned, cmdq, injected, attempts>>

\* an event loop that, on an error of the stream, reports it and goes back
\* to connecting
NotifyReconnecting(w) ==
    /\ Settled
    /\ worker[w].pc = "loop"
    /\ \/ \E event \in StreamNotifs :
            /\ injected < MaxInjected
            /\ injected' = injected + 1
            /\ Emit(w, ProcessEventSends(event))
            /\ worker' = [worker EXCEPT ![w].pc =
                             IF ProcessEventContinues(event) THEN "loop" ELSE "final"]
       \/ \E e \in StreamErrors :
            /\ injected < MaxInjected
            /\ injected' = injected + 1
            /\ Emit(w, <<EvError(e)>>)
            /\ worker' = [worker EXCEPT ![w].pc = "probe", ![w].host_idx = 1]
       \/ /\ Emit(w, << >>)
          /\ worker' = [worker EXCEPT ![w].pc = "final"]
          /\ UNCHANGED injected
    /\ UNCHANGED <<config, fgVars, requests, spawned, relay, cmdq, attempts>>

\* one pass of "for notification in connection.iter()"
Notify(w) ==
    /\ Settled
    /\ worker[w].pc = "loop"
    /\ \/ \E event \in StreamNotifs :
            /\ injected < MaxInjected
            /\ injected' = injected + 1
            /\ Emit(w, ProcessEventSends(event))
            /\ worker' = [worker EXCEPT ![w].pc =
                             IF ProcessEventContinues(event) THEN "loop" ELSE "final"]
       \/ \E e \in StreamErrors :
            /\ injected < MaxInjected
            /\ injected' = injected + 1
            /\ Emit(w, <<EvError(e)>>)
            /\ worker' = [worker EXCEPT ![w].pc = "final"]
       \/ /\ Emit(w, << >>)
          /\ worker' = [worker EXCEPT ![w].pc = "final"]
          /\ UNCHANGED injected
    /\ UNCHANGED <<config, fgVars, requests, spawned, relay, cmdq, attempts>>

\* a worker that returns from the event loop without the last send
FinalSilent(w) ==
    /\ Settled
    /\ worker[w].pc = "final"
    /\ Emit(w, << >>)
    /\ worker' = [worker EXCEPT ![w] = Ended(w, "done")]
    /\ UNCHANGED <<config, fgVars, requests, spawned, relay, cmdq, injected, attempts>>

\* the send after the event loop
Final(w) ==
    /\ Settled
    /\ worker[w].pc = "final"
    /\ Emit(w, <<EvDisconnected>>)
    /\ worker' = [worker EXCEPT ![w] = Ended(w, "done")]
    /\ UNCHANGED <<config, fgVars, requests, spawned, relay, cmdq, injected, attempts>>

\* what a panic carries: a &str or String message, or some other payload
PanicPayloads ==
    {[text |-> <<r>>] : r \in PanicReasons} \cup {[text |-> << >>]}

UnknownPanic ==
    <<"U", "n", "k", "n", "o", "w", "n", " ", "p", "a", "n", "i", "c", " ",
      "i", "n", " ", "M", "Q", "T", "T", " ", "w", "o", "r", "k", "e", "r">>

\* the message the hosting thread derives from the panic payload
PanicMessage(payload) ==
    IF payload.text # << >> THEN payload.text[1] ELSE UnknownPanic

\* run_mqtt_worker panics (anywhere before it returns)
Panic(w) ==
    /\ Settled
    /\ worker[w].pc \in {"probe", "fail", "first", "loop", "final"}
    /\ injected < MaxInjected
    /\ injected' = injected + 1
    /\ \E payload \in PanicPayloads :
          worker' = [worker EXCEPT ![w] =
                        [Ended(w, "unwind") EXCEPT !.panic = <<payload>>]]
    /\ UNCHANGED <<config, fgVars, requests, spawned, relay, evq, cmdq, emitted, sent, attempts>>

\* a hosting thread that drops the result of catch_unwind
CatchSilent(w) ==
    /\ Settled
    /\ worker[w].pc = "unwind"
    /\ Emit(w, << >>)
    /\ worker' = [worker EXCEPT ![w] = Ended(w, "exited")]
    /\ UNCHANGED <<config, fgVars, requests, spawned, relay, cmdq, injected, attempts>>

\* catch_unwind returned Err: report the crash, then the thread returns
Catch(w) ==
    /\ Settled
    /\ worker[w].pc = "unwind"
    /\ Emit(w, <<EvError(CrashText(PanicMessage(worker[w].panic[1])))>>)
    /\ worker' = [worker EXCEPT ![w] = Ended(w, "exited")]
    /\ UNCHANGED <<config, fgVars, requests, spawned, relay, cmdq, injected, attempts>>

\* the relay thread: the settling delay and the subscriptions
RelayStart(w) ==
    /\ Settled
    /\ relay[w] = "settle"
    /\ relay' = [relay EXCEPT ![w] = "run"]
    /\ requests' = [requests EXCEPT ![w] = @ \o SubscribeRequests(worker[w].subscriptions)]
    /\ UNCHANGED <<config, fgVars, spawned, worker, evq, cmdq, injected, emitted, sent, attempts>>

\* a relay that ends the worker when its command channel is closed
RelayRecvEndingWorker(w) ==
    /\ Settled
    /\ relay[w] = "run"
    /\ \/ /\ cmdq[w] # << >>
          /\ cmdq' = [cmdq EXCEPT ![w] = Tail(@)]
          /\ requests' = [requests EXCEPT ![w] = @ \o TranslateCommand(Head(cmdq[w])).requests]
          /\ relay' = [relay EXCEPT ![w] =
                          IF TranslateCommand(Head(cmdq[w])).stop THEN "done" ELSE "run"]
          /\ UNCHANGED worker
       \/ /\ cmdq[w] = << >>
          /\ ~SenderAlive(w)
          /\ relay' = [relay EXCEPT ![w] = "done"]
          /\ worker' = [worker EXCEPT ![w].pc = IF @ = "loop" THEN "final" ELSE @]
          /\ UNCHANGED <<cmdq, requests>>
    /\ UNCHANGED <<config, fgVars, spawned, evq, injected, emitted, sent, attempts>>

\* the relay thread: one pass of "for cmd in cmd_rx"
RelayRecv(w) ==
    /\ Settled
    /\ relay[w] = "run"
    /\ \/ /\ cmdq[w] # << >>
          /\ cmdq' = [cmdq EXCEPT ![w] = Tail(@)]
          /\ requests' = [requests EXCEPT ![w] = @ \o TranslateCommand(Head(cmdq[w])).requests]
          /\ relay' = [relay EXCEPT ![w] =
                          IF TranslateCommand(Head(cmdq[w])).stop THEN "done" ELSE "run"]
       \/ /\ cmdq[w] = << >>
          /\ ~SenderAlive(w)
          /\ relay' = [relay EXCEPT ![w] = "done"]
          /\ UNCHANGED <<cmdq, requests>>
    /\ UNCHANGED <<config, fgVars, spawned, worker, evq, injected, emitted, sent, attempts>>

(***************************************************************************)
(* The foreground: MqttUi::update                                          *)
(***************************************************************************)
\* the event channel whose receiver the foreground drops is gone: what it
\* held can never be received (and its history is closed)
DropReceiver(queues, conns, id) ==
    IF id \in DOMAIN conns /\ conns[id].event_rx # None
    THEN [queues EXCEPT ![conns[id].event_rx] = << >>]
    ELSE queues

DropChannel(id) ==
    /\ evq' = DropReceiver(evq, connections, id)
    /\ emitted' = DropReceiver(emitted, connections, id)
    /\ applied' = DropReceiver(applied, connections, id)

\* a ConnectionState that polls the event channel created first
NewConnectionStateFirstChannel(cfg, w) ==
    [host |-> cfg.host, subscriptions |-> cfg.subscriptions, status |-> StConnecting,
     command_tx |-> w, event_rx |-> 1]

\* struct ConnectionState as start_connection builds it
NewConnectionState(cfg, w) ==
    [host |-> cfg.host, subscriptions |-> cfg.subscriptions, status |-> StConnecting,
     command_tx |-> w, event_rx |-> w]

\* Message::Connect: start_connection, while fewer than limit workers have
\* been spawned
ConnectWithin(id, limit) ==
    /\ Settled
    /\ fg.pc = "idle"
    /\ id \in DOMAIN config
    /\ spawned < limit
    /\ LET w == spawned + 1
       IN  /\ connections' = MapInsert(connections, id, NewConnectionState(config[id], w))
           /\ worker' = [worker EXCEPT ![w] =
                            [NoWorker EXCEPT !.conn = id, !.host = config[id].host,
                                             !.subscriptions = config[id].subscriptions,
                                             !.pc = "probe"]]
           /\ spawned' = w
    /\ DropChannel(id)
    /\ UNCHANGED <<config, topic_trees, tree_cache_dirty, cached_tree_nodes,
                   tick_counter, fg, relay, cmdq, injected, sent, attempts,
                   tickApplied, staleTicks, requests, uiVars, treeVars>>

Connect(id) == ConnectWithin(id, MaxWorkers)

\* a stop_connection that keeps the receiving end of the event channel
StoppedKeepingReceiver(conn) ==
    [conn EXCEPT !.status = StDisconnected, !.command_tx = None]

\* the ConnectionState stop_connection leaves
Stopped(conn) ==
    [conn EXCEPT !.status = StDisconnected, !.command_tx = None, !.event_rx = None]

\* Message::Disconnect: stop_connection
Disconnect(id) ==
    /\ Settled
    /\ fg.pc = "idle"
    /\ id \in DOMAIN connections
    /\ LET conn == connections[id]
       IN  /\ cmdq' = IF conn.command_tx # None
                      THEN [cmdq EXCEPT ![conn.command_tx] =
                               CmdSend(@, CmdReceiverAlive(conn.command_tx), CmdDisconnect)]
                      ELSE cmdq
           /\ connections' = [connections EXCEPT ![id] = Stopped(conn)]
    /\ DropChannel(id)
    /\ UNCHANGED <<config, topic_trees, tree_cache_dirty, cached_tree_nodes,
                   tick_counter, fg, spawned, worker, relay, injected, sent,
                   attempts, tickApplied, staleTicks, requests, uiVars, treeVars>>

\* close_tab: the tabs left open
TabsWithout(tabs, id) == SelectSeq(tabs, LAMBDA t : t # id)

\* close_tab: the active tab it leaves
ActiveAfterClose(tabs, active, id) ==
    IF active = id
    THEN IF TabsWithout(tabs, id) = << >>
         THEN NoId
         ELSE TabsWithout(tabs, id)[Len(TabsWithout(tabs, id))]
    ELSE active

\* close_tab
CloseTabOf(id) ==
    /\ open_tabs' = TabsWithout(open_tabs, id)
    /\ active_tab' = ActiveAfterClose(open_tabs, active_tab, id)

\* Message::DeleteConnection
DeleteConnection(id) ==
    /\ Settled
    /\ fg.pc = "idle"
    /\ id \in DOMAIN config
    /\ config' = MapRemove(config, id)
    /\ connections' = MapRemove(connections, id)
    /\ CloseTabOf(id)
    /\ DropChannel(id)
    /\ UNCHANGED <<topic_trees, tree_cache_dirty, cached_tree_nodes,
                   tick_counter, fg, spawned, worker, relay, cmdq, injected,
                   sent, attempts, tickApplied, staleTicks, requests,
                   selected_topics, selected_messages, treeVars>>

\* tick_counter.wrapping_add(1), of which only tick_counter % REBUILD_EVERY
\* is ever read
NextTick(counter) == (counter + 1) % REBUILD_EVERY

\* topic_trees.entry(id).or_default()
EntryOrDefault(trees, id) ==
    IF id \in DOMAIN trees THEN trees[id] ELSE NewTopicTree

\* the status an event leaves (the match of poll_connections)
StatusAfter(status, event) ==
    CASE event.kind = "Connected" -> StConnected
      [] event.kind = "Disconnected" -> StDisconnected
      [] event.kind = "Error" -> StError(event.text)
      [] OTHER -> status

\* the topic trees an event leaves
TreesAfter(trees, id, event) ==
    IF event.kind = "Message"
    THEN MapInsert(trees, id, TreeInsert(EntryOrDefault(trees, id), event.msg))
    ELSE trees

\* the dirty flags an event leaves
DirtyAfter(dirty, id, event) == dirty

\* the selected messages an event leaves: a Message on the selected topic
\* of the connection becomes its selected message
SelectedAfter(selected, topics, id, event) ==
    IF event.kind = "Message" /\ id \in DOMAIN topics /\ topics[id] = event.msg.topic
    THEN MapInsert(selected, id, event.msg)
    ELSE selected

\* msg_count after an event
CountAfter(count, event) ==
    IF event.kind = "Message" THEN count + 1 ELSE count

\* a break that compares with > instead of >=
BreaksAfterOffByOne(count, event) ==
    event.kind = "Message" /\ count + 1 > MAX_MESSAGES_PER_TICK

\* "if msg_count >= MAX_MESSAGES_PER_TICK { break; }"
BreaksAfter(count, event) ==
    event.kind = "Message" /\ CountAfter(count, event) >= MAX_MESSAGES_PER_TICK

\* a try_recv that empties the channel and returns its oldest event
TryRecvFlush(queue) ==
    IF queue = << >> THEN << >> ELSE <<Head(queue), << >> >>

\* a try_recv that takes the newest event instead of the oldest
TryRecvNewest(queue) ==
    IF queue = << >> THEN << >>
    ELSE <<queue[Len(queue)], SubSeq(queue, 1, Len(queue) - 1)>>

\* Receiver::try_recv: <<event, rest>> or << >> when the channel is empty
TryRecv(queue) ==
    IF queue = << >> THEN << >> ELSE <<Head(queue), Tail(queue)>>

\* rebuild_dirty_caches: the ids it rebuilds
DirtyIds(dirty, trees) ==
    {id \in DOMAIN dirty : dirty[id] /\ id \in DOMAIN trees}

\* rebuild_dirty_caches: the caches it leaves
RebuiltCaches(cached, dirty, trees) ==
    [id \in DOMAIN cached \cup DirtyIds(dirty, trees) |->
        IF id \in DirtyIds(dirty, trees)
        THEN CollectTreeNodes(trees[id].root, 0)
        ELSE cached[id]]

\* a rebuild that leaves the dirty flags as they are
RebuiltDirtyKept(dirty, trees) == dirty

\* rebuild_dirty_caches: the dirty flags it leaves
RebuiltDirty(dirty, trees) ==
    [id \in DOMAIN dirty |-> IF id \in DirtyIds(dirty, trees) THEN FALSE ELSE dirty[id]]

\* the connections of todo whose channel try_recv would return an event from
Ready(todo) ==
    {id \in todo \cap DOMAIN connections :
        /\ connections[id].event_rx # None
        /\ evq[connections[id].event_rx] # << >>}

\* poll_connections: Ok(event) = rx.try_recv() on the channel of id, and the
\* body of the loop for that event
Recv(id, todo, count) ==
    LET w == connections[id].event_rx
        got == TryRecv(evq[w])
        event == got[1]
    IN  /\ evq' = [evq EXCEPT ![w] = got[2]]
        /\ connections' = [connections EXCEPT ![id].status = StatusAfter(@, event)]
        /\ topic_trees' = TreesAfter(topic_trees, id, event)
        /\ tree_cache_dirty' = DirtyAfter(tree_cache_dirty, id, event)
        /\ selected_messages' =
               SelectedAfter(selected_messages, selected_topics, id, event)
        /\ applied' = [applied EXCEPT ![w] = Append(@, event)]
        /\ tickApplied' = IF id = fg.cur /\ fg.pc = "poll"
                          THEN Append(tickApplied, event) ELSE <<event>>
        /\ fg' = IF BreaksAfter(count, event)
                 THEN [pc |-> "poll", todo |-> todo \ {id}, cur |-> NoId,
                       msg_count |-> CountAfter(count, event)]
                 ELSE [pc |-> "poll", todo |-> todo, cur |-> id,
                       msg_count |-> CountAfter(count, event)]
        /\ UNCHANGED <<cached_tree_nodes, staleTicks, open_tabs, active_tab,
                       selected_topics>>

\* one more tick has completed for the caches that are dirty
Aged(stale, dirty) ==
    [id \in DOMAIN dirty |->
        IF dirty[id] THEN (IF id \in DOMAIN stale THEN stale[id] ELSE 0) + 1 ELSE 0]

\* Message::Tick, after poll_connections: the rebuild on every
\* REBUILD_EVERY-th tick
EndTick(counter) ==
    /\ fg' = IdleFg
    /\ IF counter % REBUILD_EVERY = 0
       THEN /\ cached_tree_nodes' =
                   RebuiltCaches(cached_tree_nodes, tree_cache_dirty, topic_trees)
            /\ tree_cache_dirty' = RebuiltDirty(tree_cache_dirty, topic_trees)
            /\ staleTicks' = Aged(staleTicks, RebuiltDirty(tree_cache_dirty, topic_trees))
       ELSE /\ UNCHANGED <<cached_tree_nodes, tree_cache_dirty>>
            /\ staleTicks' = Aged(staleTicks, tree_cache_dirty)
    /\ tickApplied' = << >>
    /\ UNCHANGED <<connections, topic_trees, evq, applied, uiVars>>

\* the foreground runs on to its next event: the channel being drained, else
\* the channel of another connection of "for id in ids"; a try_recv that
\* finds its channel empty ends that connection's loop, and the tick ends
\* when no connection is left
Advance(todo, cur, count, counter) ==
    IF cur \in Ready(todo)
    THEN Recv(cur, todo, count)
    ELSE \/ \E id \in Ready(todo \ {cur}) : Recv(id, todo \ {cur}, 0)
         \/ /\ Ready(todo \ {cur}) = {}
            /\ EndTick(counter)

\* Message::Tick: the counter, then poll_connections up to its first event
Tick ==
    /\ Settled
    /\ fg.pc = "idle"
    /\ tick_counter' = NextTick(tick_counter)
    /\ Advance(DOMAIN connections, NoId, 0, NextTick(tick_counter))
    /\ UNCHANGED <<config, wkVars, treeVars>>

\* Message::Tick: poll_connections from one event to the next
PollRecv ==
    /\ Settled
    /\ fg.pc = "poll"
    /\ Advance(fg.todo, fg.cur, fg.msg_count, tick_counter)
    /\ UNCHANGED <<config, tick_counter, wkVars, treeVars>>

\* the ids of the open tabs
OpenTabs == {open_tabs[i] : i \in 1..Len(open_tabs)}

\* Message::OpenConnection: open_connection
OpenConnection(id) ==
    /\ Settled
    /\ fg.pc = "idle"
    /\ id \in DOMAIN config
    /\ open_tabs' = IF id \in OpenTabs THEN open_tabs ELSE Append(open_tabs, id)
    /\ active_tab' = id
    /\ topic_trees' = IF id \in DOMAIN topic_trees
                      THEN topic_trees
                      ELSE MapInsert(topic_trees, id, NewTopicTree)
    /\ UNCHANGED <<config, connections, tree_cache_dirty, cached_tree_nodes,
                   tick_counter, fg, tickApplied, applied, staleTicks,
                   selected_topics, selected_messages, evq, wkVars, treeVars>>

\* Message::CloseTab: close_tab, from the close button of an open tab
CloseTab(id) ==
    /\ Settled
    /\ fg.pc = "idle"
    /\ id \in OpenTabs
    /\ CloseTabOf(id)
    /\ UNCHANGED <<config, connections, topic_trees, tree_cache_dirty,
                   cached_tree_nodes, tick_counter, fg, tickApplied, applied,
                   staleTicks, selected_topics, selected_messages, evq, wkVars,
                   treeVars>>

\* the topics of the nodes a tree panel acts on
PanelTopics == {TopicA, TopicAB}

\* Message::SelectTopic, from the tree panel of the connection in view
SelectTopic(id, topic) ==
    /\ Settled
    /\ fg.pc = "idle"
    /\ id = active_tab
    /\ selected_topics' = MapInsert(selected_topics, id, topic)
    /\ selected_messages' =
           IF id \in DOMAIN topic_trees /\ GetLatestMessage(topic_trees[id], topic) # << >>
           THEN MapInsert(selected_messages, id, GetLatestMessage(topic_trees[id], topic)[1])
           ELSE selected_messages
    /\ UNCHANGED <<config, connections, topic_trees, tree_cache_dirty,
                   cached_tree_nodes, tick_counter, fg, tickApplied, applied,
                   staleTicks, open_tabs, active_tab, evq, wkVars, treeVars>>

\* tree_cache_dirty.insert(id, true), the cache being stale from now on
MarkedDirty(stale, dirty, id) ==
    IF id \in DOMAIN dirty /\ dirty[id] THEN stale ELSE MapInsert(stale, id, 0)

\* Message::ExpandTopic (flag TRUE) and Message::CollapseTopic (flag FALSE)
SetTopicExpanded(id, topic, flag) ==
    /\ Settled
    /\ fg.pc = "idle"
    /\ id = active_tab
    /\ IF id \in DOMAIN topic_trees
       THEN /\ topic_trees' = [topic_trees EXCEPT ![id] =
                                  IF flag THEN Expand(@, topic) ELSE Collapse(@, topic)]
            /\ tree_cache_dirty' = MapInsert(tree_cache_dirty, id, TRUE)
            /\ staleTicks' = MarkedDirty(staleTicks, tree_cache_dirty, id)
       ELSE UNCHANGED <<topic_trees, tree_cache_dirty, staleTicks>>
    /\ UNCHANGED <<config, connections, cached_tree_nodes, tick_counter, fg,
                   tickApplied, applied, uiVars, evq, wkVars, treeVars>>

\* Message::ExpandTopic
ExpandTopic(id, topic) == SetTopicExpanded(id, topic, TRUE)

\* Message::CollapseTopic
CollapseTopic(id, topic) == SetTopicExpanded(id, topic, FALSE)

\* Message::ClearTopics
ClearTopics(id) ==
    /\ Settled
    /\ fg.pc = "idle"
    /\ id = active_tab
    /\ topic_trees' = MapInsert(topic_trees, id, NewTopicTree)
    /\ cached_tree_nodes' = MapRemove(cached_tree_nodes, id)
    /\ selected_topics' = MapRemove(selected_topics, id)
    /\ selected_messages' = MapRemove(selected_messages, id)
    /\ UNCHANGED <<config, connections, tree_cache_dirty, tick_counter, fg,
                   tickApplied, applied, staleTicks, open_tabs, active_tab, evq,
                   wkVars, treeVars>>

\* the contents of the publish panel
PublishPayloads == {1, 2}
PublishLevels == {0, 2}

\* Message::SendMessage
SendMessage ==
    /\ Settled
    /\ fg.pc = "idle"
    /\ active_tab # NoId
    /\ active_tab \in DOMAIN connections
    /\ connections[active_tab].command_tx # None
    /\ LET w == connections[active_tab].command_tx
       IN  /\ Len(SelectSeq(cmdq[w], LAMBDA c : c.kind = "Publish"))
                 + Len(SelectSeq(requests[w], LAMBDA r : r.op = "publish")) < MaxPublishes
           /\ \E payload \in PublishPayloads : \E qos \in PublishLevels :
                 cmdq' = [cmdq EXCEPT ![w] =
                             CmdSend(@, CmdReceiverAlive(w),
                                     CmdPublish(TopicA, payload, qos, FALSE))]
    /\ UNCHANGED <<config, fgVars, evq, spawned, worker, relay, injected, emitted,
                   sent, attempts, requests>>

(***************************************************************************)
(* Specifications                                                          *)
(***************************************************************************)
WorkerStep(w) ==
    \/ Probe(w)
    \/ ProbeFailed(w)
    \/ First(w)
    \/ Notify(w)
    \/ Final(w)
    \/ Catch(w)
    \/ RelayStart(w)
    \/ RelayRecv(w)

\* the steps of run_mqtt_worker itself, when it does not panic
SessionStep(w) ==
    \/ Probe(w)
    \/ ProbeFailed(w)
    \/ First(w)
    \/ Notify(w)
    \/ Final(w)

PollStep ==
    \/ Tick
    \/ PollRecv

Next ==
    \/ \E id \in ConnIds : Connect(id)
    \/ \E id \in ConnIds : Disconnect(id)
    \/ \E id \in ConnIds : DeleteConnection(id)
    \/ PollStep
    \/ \E w \in Workers : WorkerStep(w)
    \/ \E w \in Workers : Panic(w)
    \/ \E w \in Workers : Reap(w)

Spec == Init /\ [][Next]_vars

\* the behaviours in which every connection is started at most once, stopped
\* and deleted at will
FirstConnect(id) == ConnectWithin(id, MaxWorkers - 1)

NextOnce ==
    \/ \E id \in ConnIds : FirstConnect(id)
    \/ \E id \in ConnIds : Disconnect(id)
    \/ \E id \in ConnIds : DeleteConnection(id)
    \/ PollStep
    \/ \E w \in Workers : WorkerStep(w)
    \/ \E w \in Workers : Panic(w)
    \/ \E w \in Workers : Reap(w)

\* the UI runtime delivers a tick every 50 ms and runs the handler to its end;
\* every spawned thread keeps running
FairSpec ==
    /\ Init
    /\ [][NextOnce]_vars
    /\ WF_vars(PollStep)
    /\ \A w \in Workers : WF_vars(WorkerStep(w) \/ Reap(w))

\* the tabs and the tree panel of the connection in view
PanelStep ==
    \/ \E id \in ConnIds : OpenConnection(id)
    \/ \E id \in ConnIds : CloseTab(id)
    \/ \E id \in ConnIds : \E topic \in PanelTopics : SelectTopic(id, topic)
    \/ \E id \in ConnIds : \E topic \in PanelTopics : ExpandTopic(id, topic)
    \/ \E id \in ConnIds : \E topic \in PanelTopics : CollapseTopic(id, topic)
    \/ \E id \in ConnIds : ClearTopics(id)

\* one connection, started at most once, with its tab and its tree panel
UiNext ==
    \/ \E id \in ConnIds : FirstConnect(id)
    \/ \E id \in ConnIds : Disconnect(id)
    \/ \E id \in ConnIds : DeleteConnection(id)
    \/ PollStep
    \/ \E w \in Workers : WorkerStep(w)
    \/ \E w \in Workers : Panic(w)
    \/ \E w \in Workers : Reap(w)
    \/ PanelStep

UiInit == InitConfigured({"c1"}, {HostOther}, {DefaultSubscriptions}, {<< >>, <<"c1">>})

UiSpec == UiInit /\ [][UiNext]_vars

\* one connection, started at most once, and the publish panel
RelayNext ==
    \/ \E id \in ConnIds : OpenConnection(id)
    \/ \E id \in ConnIds : FirstConnect(id)
    \/ \E id \in ConnIds : Disconnect(id)
    \/ \E id \in ConnIds : DeleteConnection(id)
    \/ SendMessage
    \/ \E w \in Workers : WorkerStep(w)
    \/ \E w \in Workers : Panic(w)
    \/ \E w \in Workers : Reap(w)

RelayInit == InitConfigured({"c1"}, {HostOther}, SubscriptionLists, {<< >>})

RelaySpec == RelayInit /\ [][RelayNext]_vars

\* two connections, started, restarted and stopped at will, and the
\* selection of a topic in the panel of the one in view; the relays, which
\* share nothing with the foreground but the command channel, stay in their
\* settling delay
PairNext ==
    \/ \E id \in ConnIds : Connect(id)
    \/ \E id \in ConnIds : Disconnect(id)
    \/ OpenConnection("c2")
    \/ SelectTopic("c2", TopicA)
    \/ PollStep
    \/ \E w \in Workers : SessionStep(w)
    \/ \E w \in Workers : Reap(w)

PairInit == InitConfigured(ConnIds, {HostOther}, {DefaultSubscriptions}, {<< >>})

PairSpec == PairInit /\ [][PairNext]_vars

(***************************************************************************)
(* The tree specification: one TopicTree and the operations on it          *)
(***************************************************************************)
\* the paths expand and collapse are called with
TogglePaths == Topics \cup {TopicNowhere, EmptyText}

\* tree.insert(message), the message being the next one to arrive
TreeInsertStep ==
    /\ Len(inserted) < MaxInserts
    /\ \E topic \in Topics : \E retain \in BOOLEAN :
          LET message == NewMqttMessage(topic, Len(inserted) + 1, 0, retain)
          IN  /\ tree' = TreeInsert(tree, message)
              /\ inserted' = Append(inserted, message)
    /\ UNCHANGED appVars

\* tree.expand(topic)
TreeExpandStep ==
    /\ \E topic \in TogglePaths : tree' = Expand(tree, topic)
    /\ UNCHANGED <<inserted, appVars>>

\* tree.collapse(topic)
TreeCollapseStep ==
    /\ \E topic \in TogglePaths : tree' = Collapse(tree, topic)
    /\ UNCHANGED <<inserted, appVars>>

\* tree.clear()
TreeClearStep ==
    /\ tree' = Clear(tree)
    /\ inserted' = << >>
    /\ UNCHANGED appVars

TreeNext ==
    \/ TreeInsertStep
    \/ TreeExpandStep
    \/ TreeCollapseStep
    \/ TreeClearStep

TreeSpec == Init /\ [][TreeNext]_vars

(***************************************************************************)
(* Properties                                                              *)
(***************************************************************************)
Last(s) == s[Len(s)]

\* a is b with some of its elements removed (order kept)
RECURSIVE IsSubseq(_, _)
IsSubseq(a, b) ==
    IF a = << >> THEN TRUE
    ELSE IF b = << >> THEN FALSE
    ELSE IF Head(a) = Head(b) THEN IsSubseq(Tail(a), Tail(b))
    ELSE IsSubseq(a, Tail(b))

\* the number of Message events in a sequence of events
RECURSIVE MessagesIn(_)
MessagesIn(events) ==
    IF events = << >> THEN 0
    ELSE (IF Head(events).kind = "Message" THEN 1 ELSE 0) + MessagesIn(Tail(events))

\* in this step worker w called try_send once
Sends(w) == sent'[w].count = sent[w].count + 1

\* C1: an event channel never holds more than EVENT_CHANNEL_CAPACITY events;
\* a send on a full channel drops the event being sent and leaves the queue
\* as it was, a send on a channel with room puts the event behind the queued
\* ones, and in both cases the sending step of the worker completes.
ChannelBounded ==
    /\ [](\A w \in Workers : Len(evq[w]) <= EVENT_CHANNEL_CAPACITY)
    /\ [][\A w \in Workers :
            Sends(w) /\ ReceiverAlive(w) =>
                /\ Len(emitted'[w]) = Len(emitted[w]) + 1
                /\ IF Len(evq[w]) >= EVENT_CHANNEL_CAPACITY
                   THEN evq'[w] = evq[w]
                   ELSE evq'[w] = Append(evq[w], Last(emitted'[w]))
                /\ worker'[w].pc \in {"loop", "final", "done", "exited"}]_vars

\* a full channel on which a send has been dropped
ChannelFullAndDropped ==
    \E w \in Workers :
        /\ ReceiverAlive(w)
        /\ Len(evq[w]) = EVENT_CHANNEL_CAPACITY
        /\ Len(emitted[w]) > Len(applied[w]) + Len(evq[w])

\* C2: what the poll loop has applied from a channel, followed by what is
\* still queued in it, is what the worker sent on it with some events left
\* out: same events, same order, none twice; and the event of the probe's
\* notification is the first one sent.
AppliedInOrder ==
    \A w \in Workers :
        /\ IsSubseq(applied[w] \o evq[w], emitted[w])
        /\ ReceiverAlive(w) /\ worker[w].pc \in {"loop", "final", "done"}
             /\ attempts[w] # << >> /\ Last(attempts[w]).ok
           => /\ emitted[w] # << >>
              /\ emitted[w][1] = EvConnected

\* a Message applied after the Connected of the probe, an event having been
\* dropped in between or after
AppliedSomeInOrder ==
    \E w \in Workers :
        /\ Len(applied[w]) >= 2
        /\ applied[w][1] = EvConnected
        /\ applied[w][2].kind = "Message"
        /\ applied[w][2].msg.retain
        /\ Len(emitted[w]) > Len(applied[w]) + Len(evq[w])

MaxEvents == MaxInjected + 2

\* C4: an event accepted into a channel leaves it only by being applied, the
\* oldest first, unless the connection is stopped, restarted or deleted; and
\* with ticks going on, the k-th event accepted into a channel is applied
\* unless the connection is stopped, restarted or deleted first.
LeftoverIsApplied ==
    /\ [][\A w \in Workers :
            evq'[w] # evq[w] =>
                \/ /\ evq[w] # << >>
                   /\ evq'[w] = Tail(evq[w])
                   /\ applied'[w] = Append(applied[w], Head(evq[w]))
                \/ /\ Sends(w)
                   /\ evq'[w] = Append(evq[w], Last(emitted'[w]))
                   /\ applied'[w] = applied[w]
                \/ /\ ReceiverAlive(w)
                   /\ ~ReceiverAlive(w)']_vars
    /\ \A w \in Workers : \A k \in 1..MaxEvents :
          (ReceiverAlive(w) /\ Len(applied[w]) + Len(evq[w]) >= k)
              ~> (~ReceiverAlive(w) \/ Len(applied[w]) >= k)

\* a tick has reached the cap on a channel that still holds an event
CapReachedWithLeftover ==
    \E w \in Workers :
        /\ ReceiverAlive(w)
        /\ fg.pc = "poll"
        /\ worker[w].conn \notin fg.todo
        /\ fg.msg_count = MAX_MESSAGES_PER_TICK
        /\ MessagesIn(tickApplied) = MAX_MESSAGES_PER_TICK
        /\ Last(applied[w]) = Last(tickApplied)
        /\ evq[w] # << >>

\* in this step the foreground neither started, stopped nor deleted id
NoCommand(id) ==
    /\ id \in DOMAIN connections'
    /\ connections'[id].event_rx = connections[id].event_rx

\* C5 as stated: once the status of a connection is Error, it stays Error
\* until a connect or a disconnect command for the connection.
ErrorIsTerminal ==
    [][\A id \in DOMAIN connections :
          connections[id].status.kind = "Error" /\ NoCommand(id)
              => connections'[id].status = connections[id].status]_vars

\* the topic tree of id is left as it is by this step
TreeUnchanged(id) ==
    /\ (id \in DOMAIN topic_trees') = (id \in DOMAIN topic_trees)
    /\ id \in DOMAIN topic_trees => topic_trees'[id] = topic_trees[id]

\* C6: a disconnect command sends Disconnect on the command channel (when
\* the connection has one), sets the status to Disconnected and clears both
\* handles in one step, wherever the worker is; the record stays; and while
\* the event handle is cleared, no step changes the status or the topic tree
\* of the connection.
DisconnectIsImmediate ==
    /\ [][\A id \in ConnIds :
            Disconnect(id) =>
                LET tx == connections[id].command_tx
                IN  /\ id \in DOMAIN connections'
                    /\ connections'[id].status = StDisconnected
                    /\ connections'[id].command_tx = None
                    /\ connections'[id].event_rx = None
                    /\ connections'[id].host = connections[id].host
                    /\ tx # None /\ CmdReceiverAlive(tx)
                         => cmdq'[tx] = Append(cmdq[tx], CmdDisconnect)
                    /\ worker' = worker
                    /\ TreeUnchanged(id)]_vars
    /\ [][\A id \in DOMAIN connections :
            connections[id].event_rx = None /\ NoCommand(id)
                => /\ connections'[id].status = StDisconnected
                   /\ connections[id].status = StDisconnected
                   /\ TreeUnchanged(id)]_vars

\* a connection stopped while its worker is in session, the worker having
\* sent an event since and the relay not having taken the Disconnect yet
StoppedWhileWorkerRuns ==
    \E w \in Workers :
        /\ worker[w].pc = "loop"
        /\ cmdq[w] = <<CmdDisconnect>>
        /\ sent[w].count >= 2
        /\ worker[w].conn \in DOMAIN connections
        /\ connections[worker[w].conn].status = StDisconnected
        /\ connections[worker[w].conn].event_rx = None
        /\ worker[w].conn \in DOMAIN topic_trees

\* a is the beginning of b
IsPrefix(a, b) == Len(a) <= Len(b) /\ SubSeq(b, 1, Len(a)) = a

\* the threads other than the hosting thread of w are left alone by this step
OthersUntouched(w) ==
    /\ UNCHANGED <<config, fgVars, relay, cmdq>>
    /\ \A v \in Workers \ {w} : worker'[v] = worker[v] /\ evq'[v] = evq[v]

\* C7: a panic of worker w touches nothing but w's own thread; the hosting
\* thread then sends, by one try_send, one Error whose text is "Worker
\* crashed: " followed by the panic's message, and returns, after which it
\* sends nothing; and with the threads and the ticks going on, the status of
\* the connection does not stay Connecting (unless the connection is
\* stopped, restarted or deleted).
PanicIsContained ==
    /\ [][\A w \in Workers :
            /\ worker[w].pc # "unwind" /\ worker'[w].pc = "unwind"
                 => OthersUntouched(w) /\ sent'[w] = sent[w] /\ evq'[w] = evq[w]
            /\ worker[w].pc = "unwind" /\ worker'[w] # worker[w]
                 => /\ worker'[w].pc = "exited"
                    /\ Sends(w)
                    /\ sent'[w].last =
                          <<EvError(CrashText(PanicMessage(worker[w].panic[1])))>>
                    /\ IsPrefix(CrashPrefix, sent'[w].last[1].text)
                    /\ ReceiverAlive(w) /\ Len(evq[w]) < EVENT_CHANNEL_CAPACITY
                         => evq'[w] = Append(evq[w], sent'[w].last[1])
                    /\ OthersUntouched(w)
            /\ worker[w].pc = "exited" /\ worker'[w].pc # "gone"
                 => worker'[w] = worker[w] /\ sent'[w] = sent[w]]_vars
    /\ \A w \in Workers :
          worker[w].pc = "unwind"
              ~> (~ReceiverAlive(w)
                    \/ connections[worker[w].conn].status.kind # "Connecting")

\* a worker that panicked before it sent anything has exited, and the status
\* of its connection is the Error of the crash
CrashReported ==
    \E w \in Workers :
        /\ worker[w].pc = "exited"
        /\ sent[w].count = 1
        /\ ReceiverAlive(w)
        /\ connections[worker[w].conn].status.kind = "Error"
        /\ IsPrefix(CrashPrefix, connections[worker[w].conn].status.text)

\* every connection attempt of worker w failed
AllAttemptsFailed(w) ==
    /\ attempts[w] # << >>
    /\ \A i \in 1..Len(attempts[w]) : ~attempts[w][i].ok

\* C8: a worker that returned after every candidate host failed has tried
\* each candidate once, has sent one event in all, the Error carrying the
\* description of the last failed attempt, and has spawned no relay; having
\* returned, it makes no attempt and sends nothing.
AllHostsFailedOneError ==
    /\ [](\A w \in Workers :
            worker[w].pc = "done" /\ AllAttemptsFailed(w)
                => /\ sent[w].count = 1
                   /\ sent[w].last = <<EvError(Last(attempts[w]).error)>>
                   /\ relay[w] = "none"
                   /\ Len(attempts[w]) = Len(HostsToTry(worker[w].host))
                   /\ \A i \in 1..Len(attempts[w]) :
                         attempts[w][i].host = HostsToTry(worker[w].host)[i])
    /\ [][\A w \in Workers :
            worker[w].pc = "done" /\ worker'[w].pc # "gone"
                => /\ worker'[w] = worker[w]
                   /\ sent'[w] = sent[w]
                   /\ attempts'[w] = attempts[w]]_vars

\* a worker returned after two candidates failed with different errors, and
\* the poll loop has applied its Error
TwoHostsFailed ==
    \E w \in Workers :
        /\ worker[w].pc = "done"
        /\ AllAttemptsFailed(w)
        /\ Len(attempts[w]) = 2
        /\ attempts[w][1].error # attempts[w][2].error
        /\ ReceiverAlive(w)
        /\ connections[worker[w].conn].status = StError(attempts[w][2].error)

\* worker w established a session
Established(w) == attempts[w] # << >> /\ Last(attempts[w]).ok

\* C9: a worker that established a session and returned from
\* run_mqtt_worker sent Disconnected last.
LastEventIsDisconnected ==
    \A w \in Workers :
        worker[w].pc = "done" /\ Established(w)
            => sent[w].last = <<EvDisconnected>>

\* a worker returned after Connected, an event of the session and the last
\* Disconnected
WorkerReturnedAfterSession ==
    \E w \in Workers :
        /\ worker[w].pc = "done"
        /\ Established(w)
        /\ sent[w].count >= 3
        /\ sent[w].last = <<EvDisconnected>>

\* in this step the poll loop took a Message from the channel of id
DrainsMessage(id) ==
    /\ id \in DOMAIN connections
    /\ connections[id].event_rx # None
    /\ LET w == connections[id].event_rx
       IN  /\ Len(applied'[w]) = Len(applied[w]) + 1
           /\ Last(applied'[w]).kind = "Message"

\* C10 as stated: the step that drains a Message for a connection inserts
\* it into the topic tree of the connection and sets the dirty flag of the
\* connection's render cache.
MessageMarksCacheDirty ==
    [][\A id \in ConnIds :
          DrainsMessage(id)
              => /\ id \in DOMAIN topic_trees'
                 /\ topic_trees'[id] =
                       TreeInsert(EntryOrDefault(topic_trees, id),
                                  Last(applied'[connections[id].event_rx]).msg)
                 /\ id \in DOMAIN tree_cache_dirty'
                 /\ tree_cache_dirty'[id]]_vars

(***************************************************************************)
(* Properties of the topic tree                                            *)
(***************************************************************************)
\* the paths (sequences of segment names) of a node and of all nodes below it
RECURSIVE PathsBelow(_, _)
PathsBelow(node, path) ==
    {path} \cup UNION {PathsBelow(node.children[k], Append(path, k)) :
                          k \in DOMAIN node.children}

\* the paths of the nodes of a tree, << >> being the root
NodePaths(t) == PathsBelow(t.root, << >>)

\* the node of a tree at a path that has one
NodeAt(t, path) == GetNodeRecursive(t.root, path)[1]

\* the inserted messages whose topic is exactly the path, in arrival order
RoutedTo(path) == SelectSeq(inserted, LAMBDA m : Split(m.topic) = path)

\* the last n elements of a sequence
LastN(s, n) == SubSeq(s, Len(s) - n + 1, Len(s))

Min(a, b) == IF a < b THEN a ELSE b

\* C11: the buffer of every node holds at most MAX_NODE_MESSAGES messages and
\* is the last min(n, MAX_NODE_MESSAGES) of the n messages inserted with
\* exactly the node's topic, in arrival order.
BufferKeepsNewest ==
    \A path \in NodePaths(tree) :
        LET node == NodeAt(tree, path)
            routed == RoutedTo(path)
        IN  /\ Len(node.messages) <= MAX_NODE_MESSAGES
            /\ node.messages = LastN(routed, Min(Len(routed), MAX_NODE_MESSAGES))

\* a node whose buffer has evicted its oldest message
BufferHasEvicted ==
    \E path \in NodePaths(tree) :
        /\ Len(RoutedTo(path)) > MAX_NODE_MESSAGES
        /\ Len(NodeAt(tree, path).messages) = MAX_NODE_MESSAGES
        /\ NodeAt(tree, path).messages[1] # RoutedTo(path)[1]

\* a is the beginning of b (sequences of segment names)
IsPathPrefix(a, b) == Len(a) <= Len(b) /\ SubSeq(b, 1, Len(a)) = a

\* message_count of the node at a path, 0 where the tree has no node
CountAt(t, path) ==
    IF path \in NodePaths(t) THEN NodeAt(t, path).message_count ELSE 0

\* this step is an insert
InsertsMessage == Len(inserted') = Len(inserted) + 1

\* the path of the terminal node of the message this step inserts
TerminalPath == Split(inserted'[Len(inserted')].topic)

\* C12 as stated: an insert adds 1 to message_count of the terminal node of
\* the topic and leaves message_count of every other node as it was, and
\* adds 1 to total_messages.
InsertCountsTerminalOnly ==
    [][InsertsMessage =>
          /\ tree'.total_messages = tree.total_messages + 1
          /\ \A path \in NodePaths(tree') :
                CountAt(tree', path) =
                    CountAt(tree, path) + (IF path = TerminalPath THEN 1 ELSE 0)]_vars

\* C12: an insert adds 1 to message_count of every node on the path from the
\* root to the terminal node of the topic, both included, leaves
\* message_count of every other node as it was, and adds 1 to
\* total_messages.
InsertCountsWholePath ==
    [][InsertsMessage =>
          /\ tree'.total_messages = tree.total_messages + 1
          /\ \A path \in NodePaths(tree') :
                CountAt(tree', path) =
                    CountAt(tree, path)
                        + (IF IsPathPrefix(path, TerminalPath) THEN 1 ELSE 0)]_vars

\* b, then a/b inserted: the root counts 2, a and a/b count 1, b still 1
CountedAlongPath ==
    /\ Len(inserted) = 2
    /\ inserted[1].topic = TopicB
    /\ inserted[2].topic = TopicAB
    /\ CountAt(tree, << >>) = 2
    /\ CountAt(tree, <<TopicA>>) = 1
    /\ CountAt(tree, <<TopicA, TopicB>>) = 1
    /\ CountAt(tree, <<TopicB>>) = 1

\* the inserted messages whose topic ends at the path or passes through it
RoutedThrough(path) ==
    SelectSeq(inserted, LAMBDA m : IsPathPrefix(path, Split(m.topic)))

\* C13: message_count of every node is the number of inserted messages
\* whose topic ends at the node or passes through it; no insert, expand or
\* collapse removes a node or lowers its message_count, eviction from the
\* buffer included.
CountIsCumulative ==
    /\ [](\A path \in NodePaths(tree) :
            CountAt(tree, path) = Len(RoutedThrough(path)))
    /\ [][tree' # Clear(tree) =>
            \A path \in NodePaths(tree) :
                /\ path \in NodePaths(tree')
                /\ CountAt(tree', path) >= CountAt(tree, path)]_vars

\* a node that has counted more messages than its buffer can hold
CountExceedsBuffer ==
    \E path \in NodePaths(tree) :
        /\ path # << >>
        /\ Len(RoutedTo(path)) > MAX_NODE_MESSAGES
        /\ CountAt(tree, path) > Len(NodeAt(tree, path).messages)
        /\ Len(NodeAt(tree, path).messages) = MAX_NODE_MESSAGES

\* the topics messages have been inserted with
InsertedTopics == {inserted[i].topic : i \in 1..Len(inserted)}

\* C14: total_topics is the number of distinct topics that have at least one
\* message (each has a node of its own, also when it has empty segments),
\* and total_messages is the number of inserts.
TotalsCountTopicsAndInserts ==
    /\ tree.total_topics = Cardinality(InsertedTopics)
    /\ tree.total_topics =
          Cardinality({path \in NodePaths(tree) : NodeAt(tree, path).messages # << >>})
    /\ tree.total_messages = Len(inserted)

\* three inserts on two topics, one with a leading '/'
TwoTopicsThreeInserts ==
    /\ Len(inserted) = 3
    /\ InsertedTopics = {TopicA, TopicSlashA}
    /\ tree.total_topics = 2
    /\ tree.total_messages = 3

\* the segments of a path joined by '/'
RECURSIVE JoinPath(_)
JoinPath(path) ==
    IF path = << >> THEN EmptyText
    ELSE IF Len(path) = 1 THEN path[1]
    ELSE JoinPath(SubSeq(path, 1, Len(path) - 1)) \o <<Slash>> \o path[Len(path)]

\* C15 as stated: the full_path of the root is empty, and the full_path of
\* every other node is its parent's full_path joined with its own name by
\* '/', empty segments kept, so that the nodes of distinct topics have
\* distinct full paths.
FullPathIsJoinedSegments ==
    \A path \in NodePaths(tree) :
        /\ NodeAt(tree, path).full_path = JoinPath(path)
        /\ path # << >> => NodeAt(tree, path).name = path[Len(path)]
        /\ \A other \in NodePaths(tree) :
              other # path
                  => NodeAt(tree, other).full_path # NodeAt(tree, path).full_path
                       \/ {other, path} = {<< >>, <<EmptyText>>}

\* the paths of the nodes flatten lists: every node above, below the root,
\* is expanded
VisiblePaths(t) ==
    {path \in NodePaths(t) \ {<< >>} :
        \A n \in 1..(Len(path) - 1) : NodeAt(t, SubSeq(path, 1, n)).expanded}

\* C16 as stated: every message a node stores has the node's full_path as
\* its topic (a node that nothing was published on exactly has an empty
\* buffer), and get_latest_message(full_path) of a listed node that has
\* messages returns the newest message of that node.
MessagesStoredUnderFullPath ==
    /\ \A path \in NodePaths(tree) :
          \A i \in 1..Len(NodeAt(tree, path).messages) :
              NodeAt(tree, path).messages[i].topic = NodeAt(tree, path).full_path
    /\ \A path \in VisiblePaths(tree) :
          NodeAt(tree, path).messages # << >>
              => GetLatestMessage(tree, NodeAt(tree, path).full_path)
                    = LastMessage(NodeAt(tree, path))

\* C17: get_latest_message(topic) is none when no message was inserted with
\* exactly that topic (whether or not a node exists at the path, and whatever
\* was inserted below it), and otherwise the message inserted last with
\* exactly that topic.
LatestMessageOfTopic ==
    \A topic \in TogglePaths :
        LET routed == RoutedTo(Split(topic))
        IN  GetLatestMessage(tree, topic) =
                IF routed = << >> THEN << >> ELSE <<routed[Len(routed)]>>

\* a/b was published on twice and a never: a has a node and no latest
\* message, a/b has the second message as its latest
LatestBelowEmptyNode ==
    /\ Len(RoutedTo(<<TopicA, TopicB>>)) = 2
    /\ RoutedTo(<<TopicA>>) = << >>
    /\ <<TopicA>> \in NodePaths(tree)
    /\ GetLatestMessage(tree, TopicA) = << >>
    /\ GetLatestMessage(tree, TopicAB) = <<inserted[Len(inserted)]>>
    /\ GetLatestMessage(tree, TopicNowhere) = << >>

\* what a node is, its children left aside
Shallow(node) ==
    [name |-> node.name, full_path |-> node.full_path, messages |-> node.messages,
     message_count |-> node.message_count, names |-> DOMAIN node.children]

\* t with the flag of the node at path set to flag, and nothing else changed
SameButFlag(t, changed, path, flag) ==
    /\ NodePaths(changed) = NodePaths(t)
    /\ changed.total_messages = t.total_messages
    /\ changed.total_topics = t.total_topics
    /\ \A p \in NodePaths(t) :
          /\ Shallow(NodeAt(changed, p)) = Shallow(NodeAt(t, p))
          /\ NodeAt(changed, p).expanded =
                IF p = path THEN flag ELSE NodeAt(t, p).expanded

\* C18: expand(t) sets and collapse(t) clears the flag of the node at path t
\* and changes nothing else; on a path without a node they change nothing;
\* twice is once; and an insert leaves the flag of every existing node as it
\* was and creates nodes collapsed.
ExpandCollapseTouchOneFlag ==
    /\ [](\A topic \in TogglePaths :
            /\ Expand(Expand(tree, topic), topic) = Expand(tree, topic)
            /\ Collapse(Collapse(tree, topic), topic) = Collapse(tree, topic)
            /\ IF Split(topic) \in NodePaths(tree)
               THEN /\ SameButFlag(tree, Expand(tree, topic), Split(topic), TRUE)
                    /\ SameButFlag(tree, Collapse(tree, topic), Split(topic), FALSE)
               ELSE /\ Expand(tree, topic) = tree
                    /\ Collapse(tree, topic) = tree)
    /\ [][InsertsMessage =>
            \A path \in NodePaths(tree') :
                NodeAt(tree', path).expanded =
                    IF path \in NodePaths(tree)
                    THEN NodeAt(tree, path).expanded
                    ELSE FALSE]_vars

\* a is expanded, a/b below it is not, and b was created after a was expanded
ExpandedAmongCollapsed ==
    /\ {<<TopicA>>, <<TopicA, TopicB>>, <<TopicB>>} \subseteq NodePaths(tree)
    /\ NodeAt(tree, <<TopicA>>).expanded
    /\ ~NodeAt(tree, <<TopicA, TopicB>>).expanded
    /\ ~NodeAt(tree, <<TopicB>>).expanded
    /\ ~tree.root.expanded

\* pre-order: a path before the paths below it, siblings by segment name
RECURSIVE PathLess(_, _)
PathLess(p, q) ==
    IF q = << >> THEN FALSE
    ELSE IF p = << >> THEN TRUE
    ELSE IF Head(p) # Head(q) THEN TextLess(Head(p), Head(q))
    ELSE PathLess(Tail(p), Tail(q))

\* the paths of a set in pre-order
RECURSIVE InPreOrder(_)
InPreOrder(paths) ==
    IF paths = {} THEN << >>
    ELSE LET first == CHOOSE p \in paths : \A o \in paths \ {p} : PathLess(p, o)
         IN  <<first>> \o InPreOrder(paths \ {first})

\* what the list shows of the node at a path
Listed(t, path) ==
    LET node == NodeAt(t, path)
    IN  [name |-> path[Len(path)], full_path |-> node.full_path,
         depth |-> Len(path) - 1,
         has_children |-> \E o \in NodePaths(t) :
                              Len(o) = Len(path) + 1 /\ IsPathPrefix(path, o),
         has_messages |-> Len(node.messages) > 0,
         message_count |-> node.message_count,
         is_expanded |-> node.expanded]

\* C19: the flattened list of a tree holds exactly the nodes whose ancestors
\* below the root are all expanded, in pre-order with siblings in ascending
\* order of segment name, each with its depth below the root and the node's
\* current state.
FlattenListsVisibleInPreOrder ==
    LET order == InPreOrder(VisiblePaths(tree))
    IN  CollectTreeNodes(tree.root, 0) =
            [i \in 1..Len(order) |-> Listed(tree, order[i])]

\* a is expanded and shows a/b between a and b, while a/b is collapsed and
\* hides a/b/a
ListShowsSomeAndHidesSome ==
    LET list == CollectTreeNodes(tree.root, 0)
    IN  /\ Len(list) = 3
        /\ list[1].depth = 0 /\ list[1].name = TopicA /\ list[1].is_expanded
        /\ list[2].depth = 1 /\ list[2].name = TopicB /\ list[2].has_children
        /\ ~list[2].is_expanded
        /\ list[3].depth = 0 /\ list[3].name = TopicB
        /\ <<TopicA, TopicB, TopicA>> \in NodePaths(tree)

\* the paths that inserted messages were routed through
RoutedPaths ==
    {path \in UNION {{SubSeq(Split(inserted[i].topic), 1, n) :
                          n \in 1..Len(Split(inserted[i].topic))} :
                     i \in 1..Len(inserted)} : TRUE}

\* C20: besides the root, the nodes of the tree are exactly the paths that
\* a message inserted since the last clear was routed to or through; the
\* set of nodes changes only by an insert, which removes none, and by a
\* clear of the whole tree.
NodesAreRoutedPaths ==
    /\ [](NodePaths(tree) = {<< >>} \cup RoutedPaths)
    /\ [][NodePaths(tree') # NodePaths(tree)
            => \/ InsertsMessage /\ NodePaths(tree) \subseteq NodePaths(tree')
               \/ tree' = Clear(tree) /\ NodePaths(tree') = {<< >>}]_vars

\* a exists only because a/b was published on, and b never existed
NodeExistsThroughDescendant ==
    /\ <<TopicA>> \in NodePaths(tree)
    /\ RoutedTo(<<TopicA>>) = << >>
    /\ RoutedThrough(<<TopicA>>) # << >>
    /\ <<TopicB>> \notin NodePaths(tree)
    /\ NodeAt(tree, <<TopicA>>).expanded

(***************************************************************************)
(* Properties of a worker's session                                        *)
(***************************************************************************)
\* the spellings of the loopback name among the configured hosts
LoopbackNames == {LOCALHOST, HostUpper}

\* the candidates the worker of a host is to try, in order
Candidates(host) ==
    IF host \in LoopbackNames THEN <<LOCALHOST, LOOPBACK_ADDR>> ELSE <<host>>

\* C25: the attempts of a worker are made on its candidates in order
\* ("localhost" then "127.0.0.1" when the configured host is the loopback
\* name in any case, the configured host alone otherwise), each candidate at
\* most once and none after a success; once a session is established the
\* worker makes no other attempt.
CandidatesTriedInOrder ==
    /\ [](\A w \in Workers :
            /\ Len(attempts[w]) <= Len(Candidates(worker[w].host))
            /\ \A i \in 1..Len(attempts[w]) :
                  /\ attempts[w][i].host = Candidates(worker[w].host)[i]
                  /\ i < Len(attempts[w]) => ~attempts[w][i].ok)
    /\ [][\A w \in Workers :
            Established(w) => attempts'[w] = attempts[w] \/ worker'[w].pc = "gone"]_vars

\* the worker of a connection configured with "LocalHost" failed on
\* "localhost", established its session on "127.0.0.1" and is in its event
\* loop
FellBackToLoopbackAddress ==
    \E w \in Workers :
        /\ worker[w].host = HostUpper
        /\ Len(attempts[w]) = 2
        /\ ~attempts[w][1].ok /\ attempts[w][1].host = LOCALHOST
        /\ attempts[w][2].ok /\ attempts[w][2].host = LOOPBACK_ADDR
        /\ worker[w].pc = "loop"
        /\ sent[w].count >= 2

\* worker w has left its event loop on an error of the stream
BrokeOnError(w) ==
    /\ worker[w].pc = "final"
    /\ sent[w].last # << >>
    /\ sent[w].last[1].kind = "Error"

\* C22: the step of the event loop that sends an Error leaves the loop; a
\* worker that has left its event loop sends nothing but the last
\* Disconnected, makes no connection attempt and never goes back to the
\* loop; and a worker starts connecting only in the step of a connect
\* command that spawns it.
StreamErrorEndsSession ==
    [][\A w \in Workers :
          /\ worker[w].pc = "loop" /\ Sends(w) /\ sent'[w].last[1].kind = "Error"
               => BrokeOnError(w)'
          /\ worker[w].pc = "final"
               => /\ worker'[w].pc \in {"final", "done", "unwind"}
                  /\ attempts'[w] = attempts[w]
                  /\ Sends(w) => sent'[w].last = <<EvDisconnected>>
          /\ worker'[w].pc = "probe" /\ worker[w].pc # "probe"
               => /\ worker[w].pc = "none"
                  /\ spawned' = w
                  /\ connections'[worker'[w].conn].event_rx = w]_vars

\* the stream of a worker failed after a message: the worker has sent
\* Connected, the Message and the Error, and has left its event loop
StreamFailedInSession ==
    \E w \in Workers :
        /\ BrokeOnError(w)
        /\ Established(w)
        /\ sent[w].count = 3
        /\ ReceiverAlive(w)
        /\ Len(emitted[w]) = 3
        /\ emitted[w][2].kind = "Message"

\* worker w holds an open broker session
SessionOpen(w) == worker[w].pc \in {"first", "loop"}

\* C27 as stated: at any time at most one worker of a connection holds an
\* open broker session.
OneSessionPerConnection ==
    \A id \in ConnIds :
        Cardinality({w \in Workers : worker[w].conn = id /\ SessionOpen(w)}) <= 1

\* C28 as stated: once a worker has terminated while the foreground holds
\* the receiving end of its event channel, the status of its connection
\* becomes Disconnected or Error (unless the foreground gives up the channel
\* first).
StatusSettlesAfterWorker ==
    \A w \in Workers :
        (worker[w].pc \in {"done", "exited"} /\ ReceiverAlive(w))
            ~> (\/ ~ReceiverAlive(w)
                \/ connections[worker[w].conn].status.kind \in {"Disconnected", "Error"})

(***************************************************************************)
(* Properties of the command relay                                         *)
(***************************************************************************)
\* the relay of worker w has issued its subscriptions
Subscribed(w) == relay[w] \in {"run", "done"}

\* the subscribe requests among the requests of worker w
SubscribeOps(w) == SelectSeq(requests[w], LAMBDA r : r.op = "subscribe")

\* the level requested for a configured level
LevelMatches(requested, qos) ==
    /\ qos = 0 => requested = "AtMostOnce"
    /\ qos = 1 => requested = "AtLeastOnce"
    /\ qos > 1 => requested = "ExactlyOnce"

\* C30: a relay that has issued its subscriptions has subscribed, when the
\* configured list is not empty, to the configured filters one for one and
\* to nothing else, level 0 as at-most-once, 1 as at-least-once and any
\* higher level as exactly-once, and when the list is empty to "#" alone at
\* at-most-once; before that it has subscribed to nothing.
SubscriptionsFollowConfig ==
    \A w \in Workers :
        LET subs == worker[w].subscriptions
            ops == SubscribeOps(w)
        IN  IF ~Subscribed(w) THEN ops = << >>
            ELSE IF subs = << >>
            THEN /\ Len(ops) = 1
                 /\ ops[1].topic = Wildcard
                 /\ ops[1].qos = "AtMostOnce"
            ELSE /\ Len(ops) = Len(subs)
                 /\ \A i \in 1..Len(subs) :
                       /\ ops[i].topic = subs[i].topic
                       /\ LevelMatches(ops[i].qos, subs[i].qos)

\* a relay configured with a subscription of level 3 and a second one has
\* issued exactly those two, the first as exactly-once
SubscribedAboveLevelOne ==
    \E w \in Workers :
        /\ Subscribed(w)
        /\ Len(worker[w].subscriptions) = 2
        /\ worker[w].subscriptions[1].qos = 3
        /\ Len(SubscribeOps(w)) = 2
        /\ SubscribeOps(w)[1] = ReqSubscribe(TopicB, "ExactlyOnce")
        /\ SubscribeOps(w)[2] = ReqSubscribe(Wildcard, "AtLeastOnce")

\* the number of subscriptions the relay of worker w issues
SubscriptionCount(w) ==
    IF worker[w].subscriptions = << >> THEN 1 ELSE Len(worker[w].subscriptions)

\* in this step the relay of worker w took the command at the head of its
\* command channel
TakesCommand(w) ==
    /\ relay[w] = "run"
    /\ cmdq[w] # << >>
    /\ cmdq'[w] = Tail(cmdq[w])

ClosedSilently(w) ==
    /\ relay[w] = "done"
    /\ \A i \in 1..Len(requests[w]) : requests[w][i].op # "disconnect"

\* C21: a relay whose command channel is empty ends only when the sender is
\* gone, and then without a request to the client and without a change to
\* the worker, its event channel or what it has sent; and the event loop of
\* a worker whose relay has ended that way can still take a notification.
ClosedRelayLeavesEventLoop ==
    /\ [][\A w \in Workers :
            relay[w] = "run" /\ relay'[w] = "done" /\ cmdq[w] = << >>
                => /\ ~SenderAlive(w)
                   /\ requests'[w] = requests[w]
                   /\ worker'[w] = worker[w]
                   /\ evq'[w] = evq[w]
                   /\ sent'[w] = sent[w]]_vars
    /\ [](\A w \in Workers :
            ClosedSilently(w) /\ worker[w].pc = "loop" /\ Settled
                /\ injected < MaxInjected
                => ENABLED Notify(w))

\* a relay has ended without a Disconnect command after issuing its
\* subscriptions, and its worker, having sent Connected and a Message, is
\* still in its event loop
RelayClosedWorkerRuns ==
    \E w \in Workers :
        /\ ClosedSilently(w)
        /\ requests[w] # << >>
        /\ worker[w].pc = "loop"
        /\ sent[w].count = 2
        /\ sent[w].last[1].kind = "Message"
        /\ injected < MaxInjected

(***************************************************************************)
(* Properties of the tabs, the trees and the render caches                 *)
(***************************************************************************)
\* connection id is open: it has a tab or a connection state
IsOpen(id) == id \in OpenTabs \/ id \in DOMAIN connections

\* C24 as stated: a topic tree exists only for a connection that is open;
\* closing its tab or deleting the connection destroys the tree.
TreeOnlyWhileOpen ==
    \A id \in DOMAIN topic_trees : IsOpen(id)

\* this step completes a tick
TickCompletes ==
    /\ fg' = IdleFg
    /\ fg.pc = "poll" \/ tick_counter' # tick_counter

\* the cache of id is left as it is by this step
CacheUnchanged(id) ==
    /\ (id \in DOMAIN cached_tree_nodes') = (id \in DOMAIN cached_tree_nodes)
    /\ id \in DOMAIN cached_tree_nodes => cached_tree_nodes'[id] = cached_tree_nodes[id]

\* the cache of id is marked dirty
IsDirty(id) == id \in DOMAIN tree_cache_dirty /\ tree_cache_dirty[id]

\* C26: a cache marked dirty has stayed so for fewer than REBUILD_EVERY
\* completed ticks; the tick that brings the counter to a multiple of
\* REBUILD_EVERY leaves every dirty cache equal to the flattened list of the
\* connection's tree as it is then, with its flag cleared, and every other
\* cache as it was; the other ticks change no cache and no flag.
DirtyCacheRebuiltInTime ==
    /\ [](\A id \in ConnIds :
            IsDirty(id) => id \in DOMAIN staleTicks /\ staleTicks[id] < REBUILD_EVERY)
    /\ [][TickCompletes =>
            \A id \in ConnIds :
                IF tick_counter' % REBUILD_EVERY = 0 /\ IsDirty(id)
                THEN /\ id \in DOMAIN topic_trees'
                     /\ id \in DOMAIN cached_tree_nodes'
                     /\ cached_tree_nodes'[id] = CollectTreeNodes(topic_trees'[id].root, 0)
                     /\ ~IsDirty(id)'
                ELSE /\ CacheUnchanged(id)
                     /\ IsDirty(id)' = IsDirty(id)]_vars

\* a was expanded and the list rebuilt: the cache shows a and a/b, the flag
\* is cleared, and the counter is at a multiple of REBUILD_EVERY
CacheRebuiltAfterExpand ==
    \E id \in DOMAIN cached_tree_nodes :
        /\ id \in DOMAIN tree_cache_dirty
        /\ ~tree_cache_dirty[id]
        /\ staleTicks[id] = 0
        /\ fg = IdleFg
        /\ tick_counter = 0
        /\ Len(cached_tree_nodes[id]) = 2
        /\ cached_tree_nodes[id][1].is_expanded
        /\ cached_tree_nodes[id][2].depth = 1
        /\ cached_tree_nodes[id] = CollectTreeNodes(topic_trees[id].root, 0)

(***************************************************************************)
(* Properties of the routing of events to connections                      *)
(***************************************************************************)
\* the entry of id in a map is the same before and after
SameAt(before, after, id) ==
    /\ (id \in DOMAIN after) = (id \in DOMAIN before)
    /\ id \in DOMAIN before => after[id] = before[id]

\* in this step the poll loop applied an event taken from the channel of
\* worker w
AppliesFrom(w) == Len(applied'[w]) = Len(applied[w]) + 1

\* in this step the foreground started or stopped connection id
Commanded(id) ==
    \/ id \notin DOMAIN connections
    \/ connections'[id].event_rx # connections[id].event_rx

\* C29: the channel a connection polls is the channel of the worker spawned
\* last for that connection, and what is applied from it was sent on it by
\* that worker; a step that applies an event from the channel of a worker
\* leaves the state, the tree, the selection, the cache and the dirty flag
\* of every other connection as they were; and the status and the tree of a
\* connection change only by a command for it or by an event from the
\* channel it polls.
EventsStayWithTheirConnection ==
    /\ [](/\ \A id \in DOMAIN connections :
               connections[id].event_rx # None
                   => worker[connections[id].event_rx].conn = id
          /\ \A w \in Workers :
               /\ IsSubseq(applied[w], emitted[w])
               /\ ReceiverAlive(w)
                    => \A v \in Workers : v > w => worker[v].conn # worker[w].conn)
    /\ [][\A w \in Workers :
            AppliesFrom(w) =>
                /\ ReceiverAlive(w)
                /\ \A other \in ConnIds \ {worker[w].conn} :
                      /\ SameAt(connections, connections', other)
                      /\ SameAt(topic_trees, topic_trees', other)
                      /\ SameAt(selected_topics, selected_topics', other)
                      /\ SameAt(selected_messages, selected_messages', other)
                      /\ SameAt(cached_tree_nodes, cached_tree_nodes', other)
                      /\ SameAt(tree_cache_dirty, tree_cache_dirty', other)]_vars
    /\ [][\A id \in DOMAIN connections' :
            \/ Commanded(id)
            \/ connections'[id] = connections[id] /\ SameAt(topic_trees, topic_trees', id)
            \/ /\ connections[id].event_rx # None
               /\ AppliesFrom(connections[id].event_rx)
            \/ /\ connections'[id] = connections[id]
               /\ id \notin DOMAIN topic_trees
               /\ active_tab' = id]_vars

\* the workers of c1 and c2 have both had a Message on the same topic
\* applied, c2 has that topic selected with the message of its own worker,
\* and c1, whose worker has returned, is Disconnected while c2 is Connected
BothConnectionsFed ==
    \E w, v \in Workers :
        /\ worker[w].conn = "c1" /\ ReceiverAlive(w)
        /\ worker[v].conn = "c2" /\ ReceiverAlive(v)
        /\ Len(applied[w]) = 3
        /\ applied[w][2].kind = "Message" /\ applied[w][2].msg.topic = TopicA
        /\ Len(applied[v]) = 2
        /\ applied[v][2].kind = "Message" /\ applied[v][2].msg.topic = TopicA
        /\ "c2" \in DOMAIN selected_messages
        /\ selected_messages["c2"] = applied[v][2].msg
        /\ connections["c1"].status = StDisconnected
        /\ connections["c2"].status = StConnected
        /\ topic_trees["c1"].total_messages = 1
        /\ topic_trees["c2"].total_messages = 1

====
